---------------------------- MODULE Spec2Model ----------------------------
(***************************************************************************)
(* Model of the execution-engine rust_core crate:                          *)
(*   lib.rs   is_safe_entry, validate_order (the pre-trade risk gate) and  *)
(*            run_heavy_sim (the CPU-burn simulation);                     *)
(*   main.rs  main (the keep-alive heartbeat loop).                        *)
(*                                                                         *)
(* f64 values are modelled by their IEEE-754 class: NaN, -inf, +inf, or a  *)
(* finite value.  Finite values are small integers, on which f64           *)
(* comparison and multiplication are exact (no rounding, no overflow, and  *)
(* -0.0 compares equal to 0.0, so it is not kept apart from 0).            *)
(***************************************************************************)
EXTENDS Integers, Sequences, FiniteSets, TLC

VARIABLES
    pc,        \* pc[c]: where caller c of the gate is: "idle", the name of the
               \* function it is executing, or "returned"
    fn,        \* fn[c]: the function of c's current or last call ("none" at first)
    frame,     \* frame[c]: the five f64 arguments of c's current or last call
    ret,       \* ret[c]: the value c's last call returned (<<>> before it returns)
    sim_pc,    \* run_heavy_sim: "idle" (not called), "loop" (lines 67-69), "done"
    data,      \* run_heavy_sim: its argument
    i,         \* run_heavy_sim: the loop variable of line 67
    score,     \* run_heavy_sim: the number of terms accumulated into score so far
    report,    \* run_heavy_sim: the returned String ("" before it returns)
    main_pc,   \* main: "idle" (not started), the line it is about to execute
               \* ("L5", "L6", "L10", "L11"), "sleeping" inside thread::sleep, or
               \* "panicked" (println! failed: the process exited with status 101)
    timer,     \* main: seconds left of the running thread::sleep
    stdout,    \* main: the lines printed so far (the first MaxOut of them)
    sink       \* what the process's standard output does with a write: "accepts"
               \* it, "blocks" (a full pipe nobody reads), or "fails" (/dev/full,
               \* a pipe whose reader is gone)

gateVars == <<pc, fn, frame, ret>>
simVars  == <<sim_pc, data, i, score, report>>
mainVars == <<main_pc, timer, stdout, sink>>
vars     == <<pc, fn, frame, ret, sim_pc, data, i, score, report, main_pc, timer, stdout, sink>>

-----------------------------------------------------------------------------
(* Bounds of the model.                                                    *)

\* Finite f64 inputs range over -MaxFin .. MaxFin.
MaxFin == 2
\* Number of concurrent callers of the gate.
NumCallers == 2
\* Number of printed lines the model of stdout keeps.
MaxOut == 4

-----------------------------------------------------------------------------
(* f64                                                                     *)

NaN    == [kind |-> "nan", val |-> 0]
PosInf == [kind |-> "inf", val |-> 1]
NegInf == [kind |-> "inf", val |-> -1]
Fin(n) == [kind |-> "fin", val |-> n]

IsNaN(x) == x.kind = "nan"

\* The f64 inputs the checks draw from.
F64 == {NaN, PosInf, NegInf} \cup {Fin(n) : n \in -MaxFin .. MaxFin}

\* x < y on f64: false when either side is NaN.
Lt(x, y) ==
    /\ ~IsNaN(x)
    /\ ~IsNaN(y)
    /\ IF x.kind = "inf" THEN x.val < 0 /\ y # x
       ELSE IF y.kind = "inf" THEN y.val > 0
       ELSE x.val < y.val

\* x > y on f64.
Gt(x, y) == Lt(y, x)

\* x <= y on f64: false when either side is NaN.
Le(x, y) == ~IsNaN(x) /\ ~IsNaN(y) /\ (x = y \/ Lt(x, y))

Sgn(n) == IF n > 0 THEN 1 ELSE IF n < 0 THEN -1 ELSE 0

\* x * y on f64: NaN propagates, inf * 0 is NaN, inf * nonzero is inf with the
\* product's sign.
Mul(x, y) ==
    IF IsNaN(x) \/ IsNaN(y) THEN NaN
    ELSE IF x.kind = "inf" \/ y.kind = "inf"
         THEN IF Sgn(x.val) * Sgn(y.val) = 0 THEN NaN
              ELSE [kind |-> "inf", val |-> Sgn(x.val) * Sgn(y.val)]
         ELSE Fin(x.val * y.val)

-----------------------------------------------------------------------------
(* The risk gate: lib.rs                                                   *)

is_safe_entry_uses_price(current_price, spread, volatility, max_spread, max_volatility) ==
    IF Gt(spread, max_spread) THEN FALSE
    ELSE IF Gt(volatility, max_volatility) THEN FALSE
    ELSE IF Le(current_price, Fin(0)) THEN FALSE
    ELSE TRUE

is_safe_entry_nan_rejects(current_price, spread, volatility, max_spread, max_volatility) ==
    IF ~Le(spread, max_spread) THEN FALSE
    ELSE IF ~Le(volatility, max_volatility) THEN FALSE
    ELSE TRUE

is_safe_entry_exclusive(current_price, spread, volatility, max_spread, max_volatility) ==
    IF ~Lt(spread, max_spread) /\ ~IsNaN(spread) /\ ~IsNaN(max_spread) THEN FALSE
    ELSE IF Gt(volatility, max_volatility) THEN FALSE
    ELSE TRUE

is_safe_entry(current_price, spread, volatility, max_spread, max_volatility) ==
    IF Gt(spread, max_spread) THEN FALSE
    ELSE IF Gt(volatility, max_volatility) THEN FALSE
    ELSE TRUE

validate_order_price_first(price, amount, min_amount, max_amount, balance) ==
    IF Le(price, Fin(0)) THEN <<FALSE, "Price must be positive">>
    ELSE IF Lt(amount, min_amount) THEN <<FALSE, "Amount below minimum limit">>
    ELSE IF Gt(amount, max_amount) THEN <<FALSE, "Amount exceeds maximum limit">>
    ELSE IF Gt(Mul(amount, price), balance) THEN <<FALSE, "Insufficient balance">>
    ELSE <<TRUE, "Valid">>

validate_order_no_balance_rule(price, amount, min_amount, max_amount, balance) ==
    IF Lt(amount, min_amount) THEN <<FALSE, "Amount below minimum limit">>
    ELSE IF Gt(amount, max_amount) THEN <<FALSE, "Amount exceeds maximum limit">>
    ELSE IF Le(price, Fin(0)) THEN <<FALSE, "Price must be positive">>
    ELSE <<TRUE, "Valid">>

validate_order_bad_reason(price, amount, min_amount, max_amount, balance) ==
    IF Lt(amount, min_amount) THEN <<FALSE, "Amount below minimum limit">>
    ELSE IF Gt(amount, max_amount) THEN <<FALSE, "Amount exceeds maximum limit">>
    ELSE IF Le(price, Fin(0)) THEN <<FALSE, "Price must be positive">>
    ELSE IF Gt(Mul(amount, price), balance) THEN <<FALSE, "Insufficient funds">>
    ELSE <<TRUE, "Valid">>

validate_order_bounds_checked(price, amount, min_amount, max_amount, balance) ==
    IF Gt(min_amount, max_amount) THEN <<FALSE, "Invalid amount limits">>
    ELSE IF Lt(amount, min_amount) THEN <<FALSE, "Amount below minimum limit">>
    ELSE IF Gt(amount, max_amount) THEN <<FALSE, "Amount exceeds maximum limit">>
    ELSE IF Le(price, Fin(0)) THEN <<FALSE, "Price must be positive">>
    ELSE IF Gt(Mul(amount, price), balance) THEN <<FALSE, "Insufficient balance">>
    ELSE <<TRUE, "Valid">>

validate_order(price, amount, min_amount, max_amount, balance) ==
    IF Lt(amount, min_amount) THEN <<FALSE, "Amount below minimum limit">>
    ELSE IF Gt(amount, max_amount) THEN <<FALSE, "Amount exceeds maximum limit">>
    ELSE IF Le(price, Fin(0)) THEN <<FALSE, "Price must be positive">>
    ELSE IF Gt(Mul(amount, price), balance) THEN <<FALSE, "Insufficient balance">>
    ELSE <<TRUE, "Valid">>


Callers == 1 .. NumCallers

\* The argument lists of a call whose five arguments are drawn from S.
Args(S) == S \X S \X S \X S \X S

\* Caller c enters function f with arguments a: the arguments are passed by
\* value into c's own frame.
Invoke(c, f, a) ==
    /\ pc[c] \in {"idle", "returned"}
    /\ pc' = [pc EXCEPT ![c] = f]
    /\ fn' = [fn EXCEPT ![c] = f]
    /\ frame' = [frame EXCEPT ![c] = a]
    /\ ret' = [ret EXCEPT ![c] = <<>>]
    /\ UNCHANGED <<simVars, mainVars>>

\* Caller c's call of is_safe_entry runs to its return.
ReturnSafe(c) ==
    /\ pc[c] = "is_safe_entry"
    /\ LET a == frame[c]
       IN  ret' = [ret EXCEPT ![c] = <<is_safe_entry(a[1], a[2], a[3], a[4], a[5])>>]
    /\ pc' = [pc EXCEPT ![c] = "returned"]
    /\ UNCHANGED <<fn, frame, simVars, mainVars>>

\* Caller c's call of validate_order runs to its return.
ReturnValidate(c) ==
    /\ pc[c] = "validate_order"
    /\ LET a == frame[c]
       IN  ret' = [ret EXCEPT ![c] = validate_order(a[1], a[2], a[3], a[4], a[5])]
    /\ pc' = [pc EXCEPT ![c] = "returned"]
    /\ UNCHANGED <<fn, frame, simVars, mainVars>>

-----------------------------------------------------------------------------
(* The simulation: lib.rs, run_heavy_sim                                   *)

iterations == 1000000

\* The payloads run_heavy_sim is called with.
DataSet == {"", "BTC/USDT {} 0.5"}

Digit(d) ==
    CASE d = 0 -> "0" [] d = 1 -> "1" [] d = 2 -> "2" [] d = 3 -> "3" [] d = 4 -> "4"
      [] d = 5 -> "5" [] d = 6 -> "6" [] d = 7 -> "7" [] d = 8 -> "8" [] d = 9 -> "9"

\* Display of a non-negative integer: its decimal digits.
RECURSIVE Dec(_)
Dec(n) == IF n < 10 THEN Digit(n) ELSE Dec(n \div 10) \o Digit(n % 10)

\* Display of score with {:.4}.  The value is the f64 sum of sin(sqrt(k)) over
\* the accumulated terms k; it is kept symbolic, named by the number of terms.
ScoreText(n) == "<sum of " \o Dec(n) \o " terms sin(sqrt(k)) to 4 places>"

\* The format! of line 71.
Format(its, sc, d) ==
    "Simulation Complete. Processed " \o Dec(its) \o " iterations. Score: "
        \o ScoreText(sc) \o ". Data received: " \o d

SimIterInclusive ==
    /\ sim_pc = "loop"
    /\ i <= iterations
    /\ score' = score + 1
    /\ i' = i + 1
    /\ UNCHANGED <<sim_pc, data, report, gateVars, mainVars>>

\* One iteration of the loop of lines 67-69: score += (i as f64).sqrt().sin().
SimIter ==
    /\ sim_pc = "loop"
    /\ i < iterations
    /\ score' = score + 1
    /\ i' = i + 1
    /\ UNCHANGED <<sim_pc, data, report, gateVars, mainVars>>

\* The range 0..iterations is exhausted: the report is formatted and returned.
SimReturn ==
    /\ sim_pc = "loop"
    /\ ~(i < iterations)
    /\ report' = Format(iterations, score, data)
    /\ sim_pc' = "done"
    /\ UNCHANGED <<data, i, score, gateVars, mainVars>>

-----------------------------------------------------------------------------
(* The service process: main.rs                                            *)

SleepSecs == 60

Started   == "Execution Engine (rust_core) Service Started."
Looping   == "Running in loop to keep container alive..."
Heartbeat == "Heartbeat: Execution Engine is alive."

\* The line is written: stdout, of which the model keeps the first MaxOut
\* lines, with the line appended.
Emit(line) == IF Len(stdout) < MaxOut THEN Append(stdout, line) ELSE stdout

\* println!(line), after which main goes on at next.  The write is accepted
\* and the line printed; or the write fails and println! panics ("failed
\* printing to stdout"), which ends main with status 101 and nothing printed.
\* While the write blocks, println! does not return.
Println(line, next) ==
    /\ \/ /\ sink = "accepts"
          /\ stdout' = Emit(line)
          /\ main_pc' = next
       \/ /\ sink = "fails"
          /\ stdout' = stdout
          /\ main_pc' = "panicked"
    /\ UNCHANGED <<timer, sink, gateVars, simVars>>

MainStarted == main_pc = "L5" /\ Println(Started, "L6")

MainLooping == main_pc = "L6" /\ Println(Looping, "L10")

\* thread::sleep(Duration::from_secs(60)) is entered.
MainSleep ==
    /\ main_pc = "L10"
    /\ timer' = SleepSecs
    /\ main_pc' = "sleeping"
    /\ UNCHANGED <<stdout, sink, gateVars, simVars>>

\* One second of the sleep passes.
MainTick ==
    /\ main_pc = "sleeping"
    /\ timer > 0
    /\ timer' = timer - 1
    /\ UNCHANGED <<main_pc, stdout, sink, gateVars, simVars>>

\* The sleep is over.
MainWake ==
    /\ main_pc = "sleeping"
    /\ timer = 0
    /\ main_pc' = "L11"
    /\ UNCHANGED <<timer, stdout, sink, gateVars, simVars>>

\* The heartbeat is printed and the loop starts over.
MainHeartbeat == main_pc = "L11" /\ Println(Heartbeat, "L10")

\* The reader of standard output, outside the process: it stops reading and
\* the pipe fills, reads again, or goes away (for good).
SinkChanges ==
    /\ main_pc # "panicked"
    /\ \/ sink = "accepts" /\ sink' = "blocks"
       \/ sink = "blocks" /\ sink' = "accepts"
       \/ sink \in {"accepts", "blocks"} /\ sink' = "fails"
    /\ UNCHANGED <<main_pc, timer, stdout, gateVars, simVars>>

-----------------------------------------------------------------------------
(* Specifications                                                          *)

GateIdle ==
    /\ pc = [c \in Callers |-> "idle"]
    /\ fn = [c \in Callers |-> "none"]
    /\ frame = [c \in Callers |-> <<>>]
    /\ ret = [c \in Callers |-> <<>>]

SimIdle == sim_pc = "idle" /\ data = "" /\ i = 0 /\ score = 0 /\ report = ""

MainIdle == main_pc = "idle" /\ timer = 0 /\ stdout = <<>> /\ sink = "accepts"

\* The gate under concurrent callers, each calling either function again and
\* again.  The argument lists reach every outcome of both functions.
ConcF64 == {Fin(0), Fin(1), Fin(2)}

SafeArgs == {<<Fin(1), s, v, Fin(1), Fin(1)>> : s \in ConcF64, v \in ConcF64}

ValidateArgs == {<<p, a, Fin(1), Fin(1), Fin(1)>> : p \in ConcF64, a \in ConcF64}

Init == GateIdle /\ SimIdle /\ MainIdle

Next ==
    \E c \in Callers :
        \/ \E a \in SafeArgs : Invoke(c, "is_safe_entry", a)
        \/ \E a \in ValidateArgs : Invoke(c, "validate_order", a)
        \/ ReturnSafe(c)
        \/ ReturnValidate(c)

Spec == Init /\ [][Next]_vars

\* validate_order on every argument list over F64.
InitValidate ==
    /\ pc = [c \in Callers |-> IF c = 1 THEN "validate_order" ELSE "idle"]
    /\ fn = [c \in Callers |-> IF c = 1 THEN "validate_order" ELSE "none"]
    /\ \E a \in Args(F64) : frame = [c \in Callers |-> IF c = 1 THEN a ELSE <<>>]
    /\ ret = [c \in Callers |-> <<>>]
    /\ SimIdle
    /\ MainIdle

NextValidate == \E c \in Callers : ReturnValidate(c)

SpecValidate == InitValidate /\ [][NextValidate]_vars

\* is_safe_entry on every argument list over F64, called by caller 1, and by
\* caller 2 with the same arguments but for any current_price.
InitSafe ==
    /\ pc = [c \in Callers |-> IF c \in {1, 2} THEN "is_safe_entry" ELSE "idle"]
    /\ fn = [c \in Callers |-> IF c \in {1, 2} THEN "is_safe_entry" ELSE "none"]
    /\ \E a \in Args(F64) : \E p \in F64 :
           frame = [c \in Callers |-> IF c = 1 THEN a
                                      ELSE IF c = 2 THEN [a EXCEPT ![1] = p]
                                      ELSE <<>>]
    /\ ret = [c \in Callers |-> <<>>]
    /\ SimIdle
    /\ MainIdle

NextSafe == \E c \in Callers : ReturnSafe(c)

SpecSafe == InitSafe /\ [][NextSafe]_vars

\* run_heavy_sim on each payload; the call runs to its end.
InitSim ==
    /\ GateIdle
    /\ MainIdle
    /\ sim_pc = "loop"
    /\ data \in DataSet
    /\ i = 0
    /\ score = 0
    /\ report = ""

NextSim == SimIter \/ SimReturn

SpecSim == InitSim /\ [][NextSim]_vars /\ WF_vars(NextSim)

\* The service process, started on any standard output; the process is
\* scheduled and its clock advances, and the reader of its output does what
\* it likes.
InitMain ==
    /\ GateIdle
    /\ SimIdle
    /\ main_pc = "L5"
    /\ timer = 0
    /\ stdout = <<>>
    /\ sink \in {"accepts", "blocks", "fails"}

MainStep ==
    \/ MainStarted
    \/ MainLooping
    \/ MainSleep
    \/ MainTick
    \/ MainWake
    \/ MainHeartbeat

NextMain == MainStep \/ SinkChanges

SpecMain == InitMain /\ [][NextMain]_vars /\ WF_vars(MainStep)

-----------------------------------------------------------------------------
(* Properties                                                              *)

Returned(c, f) == pc[c] = "returned" /\ fn[c] = f

\* x == y on f64: false when either side is NaN.
Eq(x, y) == ~IsNaN(x) /\ ~IsNaN(y) /\ x = y

\* The numbers of the rules of validate_order that the argument list a fails.
FailingRules(a) ==
    {k \in 1 .. 4 :
        \/ k = 1 /\ Lt(a[2], a[3])
        \/ k = 2 /\ Gt(a[2], a[4])
        \/ k = 3 /\ Le(a[1], Fin(0))
        \/ k = 4 /\ Gt(Mul(a[2], a[1]), a[5])}

RuleReason(k) ==
    CASE k = 1 -> "Amount below minimum limit"
      [] k = 2 -> "Amount exceeds maximum limit"
      [] k = 3 -> "Price must be positive"
      [] k = 4 -> "Insufficient balance"

Lowest(S) == CHOOSE k \in S : \A j \in S : k <= j

Reasons ==
    {"Amount below minimum limit", "Amount exceeds maximum limit",
     "Price must be positive", "Insufficient balance", "Valid"}

\* C1: validate_order returns (false, reason of the lowest-numbered failing
\* rule), in the order amount < min, amount > max, price <= 0,
\* amount * price > balance, and (true, "Valid") when no rule fails; amount ==
\* min_amount, amount == max_amount and amount * price == balance do not
\* trigger rules 1, 2 and 4, and price == 0 triggers rule 3.
C1_FirstFailingRuleWins ==
    \A c \in Callers :
        Returned(c, "validate_order") =>
            LET a == frame[c]
                failing == FailingRules(a)
            IN  /\ ret[c] = IF failing = {} THEN <<TRUE, "Valid">>
                            ELSE <<FALSE, RuleReason(Lowest(failing))>>
                /\ Eq(a[2], a[3]) => ret[c][2] # RuleReason(1)
                /\ Eq(a[2], a[4]) => ret[c][2] # RuleReason(2)
                /\ Eq(Mul(a[2], a[1]), a[5]) => ret[c][2] # RuleReason(4)
                /\ Eq(a[1], Fin(0)) => ret[c][2] \in {RuleReason(1), RuleReason(2), RuleReason(3)}
                /\ Eq(a[1], Fin(0)) /\ failing \cap {1, 2} = {} => ret[c][2] = RuleReason(3)

\* A call that fails rules 2, 3 and 4 at once has returned the reason of rule 2.
C1_Witness ==
    \E c \in Callers :
        /\ Returned(c, "validate_order")
        /\ FailingRules(frame[c]) = {2, 3, 4}
        /\ ret[c] = <<FALSE, "Amount exceeds maximum limit">>

\* The order invariant on the argument list a, in f64 arithmetic.
OrderInvariant(a) ==
    /\ Gt(a[1], Fin(0))
    /\ Le(a[3], a[2])
    /\ Le(a[2], a[4])
    /\ Le(Mul(a[2], a[1]), a[5])

NoNaN(a) == (\A k \in 1 .. 5 : ~IsNaN(a[k])) /\ ~IsNaN(Mul(a[2], a[1]))

\* C3 as stated: on every input, NaN and infinities included, whenever
\* validate_order returns true, price > 0, min_amount <= amount <= max_amount
\* and amount * price <= balance hold.
C3_AcceptedImpliesInvariant ==
    \A c \in Callers :
        Returned(c, "validate_order") /\ ret[c][1] => OrderInvariant(frame[c])

\* C3 as amended: every call returns; on every input in which no argument and
\* not the product amount * price is NaN (infinities included), validate_order
\* returns true exactly when the order invariant holds.
C3_NoNaNAcceptedIffInvariant ==
    \A c \in Callers :
        /\ pc[c] = "validate_order" => ENABLED ReturnValidate(c)
        /\ Returned(c, "validate_order") /\ NoNaN(frame[c]) =>
               (ret[c][1] <=> OrderInvariant(frame[c]))

\* A call with an infinite argument and no NaN was rejected for violating the
\* balance condition alone.
C3_Witness ==
    \E c \in Callers :
        /\ Returned(c, "validate_order")
        /\ NoNaN(frame[c])
        /\ frame[c][1] = PosInf
        /\ FailingRules(frame[c]) = {4}
        /\ ~ret[c][1]

\* C6: every call of validate_order returns a pair whose reason is one of the
\* five strings, and whose boolean is true iff the reason is "Valid".
C6_ReturnsKnownReason ==
    \A c \in Callers :
        /\ pc[c] = "validate_order" => ENABLED ReturnValidate(c)
        /\ Returned(c, "validate_order") =>
               /\ Len(ret[c]) = 2
               /\ ret[c][1] \in BOOLEAN
               /\ ret[c][2] \in Reasons
               /\ ret[c][1] <=> ret[c][2] = "Valid"

\* A call on an infinite amount has returned (false, "Insufficient balance").
C6_Witness ==
    \E c \in Callers :
        /\ Returned(c, "validate_order")
        /\ frame[c][2] = PosInf
        /\ ret[c] = <<FALSE, "Insufficient balance">>

\* C10: when min_amount > max_amount and price, amount and balance are not
\* NaN, validate_order returns false, with "Amount below minimum limit" if
\* amount < min_amount and "Amount exceeds maximum limit" otherwise.
C10_InconsistentBoundsReject ==
    \A c \in Callers :
        LET a == frame[c]
        IN  /\ Returned(c, "validate_order")
            /\ Gt(a[3], a[4])
            /\ ~IsNaN(a[1]) /\ ~IsNaN(a[2]) /\ ~IsNaN(a[5])
            => ret[c] = IF Lt(a[2], a[3])
                        THEN <<FALSE, "Amount below minimum limit">>
                        ELSE <<FALSE, "Amount exceeds maximum limit">>

\* With min_amount > max_amount, a call whose amount is at least min_amount
\* and whose price is not positive was rejected for exceeding the maximum.
C10_Witness ==
    \E c \in Callers :
        LET a == frame[c]
        IN  /\ Returned(c, "validate_order")
            /\ Gt(a[3], a[4])
            /\ Le(a[3], a[2])
            /\ Le(a[1], Fin(0))
            /\ ~IsNaN(a[5])
            /\ ret[c] = <<FALSE, "Amount exceeds maximum limit">>

\* C2: is_safe_entry returns false iff spread > max_spread or volatility >
\* max_volatility; values equal to or below the limits are accepted, and
\* spread > max_spread rejects whatever the volatility.
C2_InclusiveCeilings ==
    \A c \in Callers :
        Returned(c, "is_safe_entry") =>
            LET a == frame[c]
            IN  /\ ret[c] \in {<<TRUE>>, <<FALSE>>}
                /\ ret[c] = <<FALSE>> <=> (Gt(a[2], a[4]) \/ Gt(a[3], a[5]))
                /\ Eq(a[2], a[4]) /\ Eq(a[3], a[5]) => ret[c] = <<TRUE>>
                /\ Le(a[2], a[4]) /\ Le(a[3], a[5]) => ret[c] = <<TRUE>>
                /\ Gt(a[2], a[4]) => ret[c] = <<FALSE>>

\* A call with spread == max_spread and volatility == max_volatility was
\* accepted.
C2_Witness ==
    \E c \in Callers :
        /\ Returned(c, "is_safe_entry")
        /\ Eq(frame[c][2], frame[c][4])
        /\ Eq(frame[c][3], frame[c][5])
        /\ ret[c] = <<TRUE>>

\* C4: two calls of is_safe_entry that agree on spread, volatility, max_spread
\* and max_volatility return the same result, whatever their current_price.
C4_PriceIndependent ==
    \A c \in Callers : \A d \in Callers :
        /\ Returned(c, "is_safe_entry")
        /\ Returned(d, "is_safe_entry")
        /\ \A k \in 2 .. 5 : frame[c][k] = frame[d][k]
        => ret[c] = ret[d]

\* Two calls that differ in current_price only, one of them with a negative
\* and the other with a NaN current_price, have both been accepted.
C4_Witness ==
    \E c \in Callers : \E d \in Callers :
        /\ Returned(c, "is_safe_entry")
        /\ Returned(d, "is_safe_entry")
        /\ \A k \in 2 .. 5 : frame[c][k] = frame[d][k]
        /\ frame[c][1] = Fin(-1)
        /\ frame[d][1] = NaN
        /\ ret[c] = <<TRUE>>
        /\ ret[d] = <<TRUE>>

\* C7: in is_safe_entry a NaN spread leaves the result to the volatility check
\* alone, a NaN volatility leaves it to the spread check alone, and with both
\* NaN the result is true.
C7_NaNIsSafe ==
    \A c \in Callers :
        Returned(c, "is_safe_entry") =>
            LET a == frame[c]
            IN  /\ IsNaN(a[2]) => ret[c] = <<~Gt(a[3], a[5])>>
                /\ IsNaN(a[3]) => ret[c] = <<~Gt(a[2], a[4])>>
                /\ IsNaN(a[2]) /\ IsNaN(a[3]) => ret[c] = <<TRUE>>

\* A call with a NaN spread and a volatility below its finite limit was
\* accepted.
C7_Witness ==
    \E c \in Callers :
        /\ Returned(c, "is_safe_entry")
        /\ IsNaN(frame[c][2])
        /\ frame[c][4].kind = "fin"
        /\ Lt(frame[c][3], frame[c][5])
        /\ ret[c] = <<TRUE>>

\* C8: run_heavy_sim terminates on every payload, after exactly 1,000,000
\* iterations with one accumulation each, and returns "Simulation Complete.
\* Processed 1000000 iterations. Score: <score>. Data received: <data>".
C8_SimTerminates ==
    /\ <>(sim_pc = "done")
    /\ [](sim_pc = "done" =>
            /\ i = 1000000
            /\ score = 1000000
            /\ report = "Simulation Complete. Processed 1000000 iterations. Score: "
                            \o ScoreText(1000000) \o ". Data received: " \o data)
    /\ [][/\ data' = data
          /\ i' # i => i' = i + 1 /\ score' = score + 1 /\ i \in 0 .. 999999]_vars

\* The call on a non-empty payload has returned.
C8_Witness == sim_pc = "done" /\ data # "" /\ i = 1000000 /\ report # ""

\* The lines printed so far are the two start-up lines, once each and in
\* order, followed by heartbeats only.
StdoutShape ==
    \A k \in 1 .. Len(stdout) :
        stdout[k] = IF k = 1 THEN Started ELSE IF k = 2 THEN Looping ELSE Heartbeat

\* C9: main never terminates; it prints the two start-up lines once, before
\* any heartbeat; it repeats forever the cycle of a sleep of 60 seconds and a
\* heartbeat, so that heartbeats are printed infinitely often and each follows
\* a sleep; and no step calls the gate.
C9_HeartbeatForever ==
    /\ [](main_pc # "panicked")
    /\ [](StdoutShape /\ (main_pc \in {"L10", "sleeping", "L11"} => Len(stdout) >= 2))
    /\ [][main_pc' # main_pc /\ main_pc' \in {"L5", "L6"} =>
            main_pc = "L5" /\ main_pc' = "L6"]_vars
    /\ [][main_pc' # main_pc /\ main_pc' = "L11" =>
            main_pc = "sleeping" /\ timer = 0]_vars
    /\ [][main_pc = "L11" /\ main_pc' # main_pc =>
            main_pc' = "L10" /\ stdout' = Emit(Heartbeat)]_vars
    /\ [][timer' # timer =>
            \/ main_pc = "L10" /\ timer' = 60
            \/ main_pc = "sleeping" /\ timer' = timer - 1]_vars
    /\ []<>(<<main_pc = "L11" /\ main_pc' = "L10">>_vars)
    /\ [][UNCHANGED gateVars]_vars

=============================================================================
